---- MODULE Spec2Model ----
(***************************************************************************)
(* A model of baker_cli/dockerfile_gen.py: the recipe registry, the        *)
(* RUN-prefix rule, the variant resolver, the defaults merge, the          *)
(* generation pipeline, the defaults validator and the recipe directory    *)
(* loader.                                                                 *)
(*                                                                         *)
(* Python dicts are functions whose DOMAIN is the set of keys, None is     *)
(* NULL, text is a sequence of one-character strings (a rendered           *)
(* parameter value is one atomic element of such a sequence).              *)
(***************************************************************************)
EXTENDS Integers, Sequences, FiniteSets, TLC

VARIABLES
    mode,            \* which entry point of the module the run exercises
    \* --- the template primitives recipe() / recipe_raw() ---
    snippet,         \* the snippet text registered for the recipe "install"
    out,             \* what the primitive returned: [raised, text]
    rpc,             \* "start" | "recipe" | "raw"
    \* --- the recipe registry ---
    pkg,             \* the package's templates/recipes/*.yml, sorted by name
    DEFAULT_RECIPES, \* the module global
    BUILTIN_LOADED,  \* the module global _BUILTIN_RECIPES_LOADED
    pkg_reads,       \* how many times the package's recipe files were read
    registries,      \* the RecipeRegistry objects constructed so far (.recipes)
    ret,             \* the last get/has call and its outcome
    \* --- the variant resolver ---
    variants_dir,    \* <template_dir>/variants: file stem -> parsed YAML
    vid,             \* the variant id asked for
    vresult,         \* what load_variant_config returned
    vpc,             \* "start" | "done"
    \* --- generate_all_dockerfiles ---
    settings,        \* the parsed build-settings.yml
    args,            \* the call: [targets, defaults, dry_run]
    fs,              \* what is on disk: [templates, copier, defaults_yml]
    pc,              \* "call" | "loop" | "returned" | "raised"
    selected,        \* the local: the target names to go through
    idx,             \* the position of the loop in selected
    merged_defaults, \* the local of generate_all_dockerfiles
    results,         \* the local: target name -> generated content
    error,           \* the exception that left the call, or NoError
    fs_out,          \* the output tree: path -> Dir or File(content)
    \* --- the registry's constructor arguments ---
    given,           \* the recipes argument each registry was constructed with
    \* --- check_variant_defaults ---
    chk_defaults,    \* the argument defaults
    chk_variant,     \* the argument variant
    chk_ret,         \* what the call returned: [is_complete, missing]
    chk_pc,          \* "start" | "done"
    \* --- load_recipes_from_dir ---
    dir_path,        \* the directory: [is_dir, files: file name -> parsed YAML]
    dir_ret,         \* what the call returned
    dir_pc           \* "start" | "done"

recipeVars == <<snippet, out, rpc>>
registryVars == <<pkg, DEFAULT_RECIPES, BUILTIN_LOADED, pkg_reads, registries, ret,
                  given>>
variantVars == <<variants_dir, vid, vresult, vpc>>
genVars == <<settings, args, fs, pc, selected, idx, merged_defaults, results,
             error, fs_out>>
checkVars == <<chk_defaults, chk_variant, chk_ret, chk_pc>>
dirVars == <<dir_path, dir_ret, dir_pc>>
vars == <<mode, recipeVars, registryVars, variantVars, genVars, checkVars, dirVars>>

(***************************************************************************)
(* Bounds of the model.                                                    *)
(***************************************************************************)
\* Snippets are concatenations of at most MaxPieces pieces of text.
MaxPieces == 4

(***************************************************************************)
(* Dicts.                                                                  *)
(***************************************************************************)
NULL == "None"
NONE == "<none>"

EmptyDict == [k \in {} |-> NULL]

\* dict.update / {**a, **b}: b's keys overwrite a's, whatever the value.
Update(a, b) ==
    [k \in (DOMAIN a) \cup (DOMAIN b) |-> IF k \in DOMAIN b THEN b[k] ELSE a[k]]

\* dict.get(k, default)
Get(d, k, default) == IF k \in DOMAIN d THEN d[k] ELSE default

\* dict.pop(k, ...): the dict without k
Pop(d, k) == [x \in (DOMAIN d) \ {k} |-> d[x]]

NoError == [type |-> NONE, target |-> NONE]

\* The pipeline's variables in a run that does not call it.
GenIdle ==
    /\ settings = EmptyDict /\ args = EmptyDict /\ fs = EmptyDict
    /\ pc = "idle" /\ selected = <<>> /\ idx = 0
    /\ merged_defaults = EmptyDict /\ results = EmptyDict
    /\ error = NoError /\ fs_out = EmptyDict

\* check_variant_defaults' variables in a run that does not call it.
CheckIdle ==
    /\ chk_defaults = EmptyDict /\ chk_variant = <<>>
    /\ chk_ret = [is_complete |-> FALSE, missing |-> <<>>] /\ chk_pc = "idle"

\* load_recipes_from_dir's variables in a run that does not call it.
DirIdle ==
    /\ dir_path = [is_dir |-> FALSE, files |-> EmptyDict]
    /\ dir_ret = EmptyDict /\ dir_pc = "idle"

(***************************************************************************)
(* Text.                                                                   *)
(***************************************************************************)
NL == "\n"
Whitespace == {" ", NL}

RUN_ == <<"R", "U", "N", " ">>
COPY_ == <<"C", "O", "P", "Y", " ">>

RECURSIVE rstrip(_)
rstrip(s) ==
    IF s # <<>> /\ s[Len(s)] \in Whitespace
    THEN rstrip(SubSeq(s, 1, Len(s) - 1))
    ELSE s

RECURSIVE lstrip(_)
lstrip(s) ==
    IF s # <<>> /\ s[1] \in Whitespace THEN lstrip(Tail(s)) ELSE s

strip(s) == lstrip(rstrip(s))

startswith(s, p) == Len(s) >= Len(p) /\ SubSeq(s, 1, Len(p)) = p

\* s.split("\n"): the list of lines, [""] for the empty text
RECURSIVE split(_)
split(s) ==
    IF \E i \in 1..Len(s) : s[i] = NL
    THEN LET i == CHOOSE j \in 1..Len(s) :
                      s[j] = NL /\ \A h \in 1..(j - 1) : s[h] # NL
         IN  <<SubSeq(s, 1, i - 1)>> \o split(SubSeq(s, i + 1, Len(s)))
    ELSE <<s>>

\* "\n".join(lines)
RECURSIVE join(_)
join(lines) ==
    IF lines = <<>> THEN <<>>
    ELSE IF Len(lines) = 1 THEN lines[1]
    ELSE lines[1] \o <<NL>> \o join(Tail(lines))

\* The number of lines the loop of _recipe_func pops from the front.
RECURSIVE LeadingCount(_)
LeadingCount(lines) ==
    IF lines # <<>> /\ startswith(strip(lines[1]), <<"#">>)
    THEN 1 + LeadingCount(Tail(lines))
    ELSE 0

\* The RUN-prefix rule of _recipe_func, applied to what registry.get returned.
RunPrefix(got) ==
    LET content == rstrip(got) IN
    IF content # <<>> /\ ~startswith(content, RUN_) /\ ~startswith(content, COPY_)
    THEN LET lines == split(content)
             n == LeadingCount(lines)
             leading_comments == SubSeq(lines, 1, n)
             cmd_content == strip(join(SubSeq(lines, n + 1, Len(lines))))
         IN  IF cmd_content # <<>>
             THEN (IF leading_comments # <<>>
                   THEN join(leading_comments) \o <<NL>>
                   ELSE <<>>) \o RUN_ \o cmd_content
             ELSE IF leading_comments # <<>>
                  THEN join(leading_comments)
                  ELSE content
    ELSE content

\* _recipe_raw_func on what registry.get returned.
RawStrip(got) ==
    rstrip(IF startswith(got, RUN_) THEN SubSeq(got, 5, Len(got)) ELSE got)

(***************************************************************************)
(* Recipes: name -> (variant key -> snippet).                              *)
(***************************************************************************)
\* A snippet is a template: PARAM stands for "{{ python_version }}".
PARAM == "{{python_version}}"

\* jinja2's Template.render(**kwargs) of a snippet: the parameter is replaced
\* by its value, an undefined one by nothing.
RECURSIVE RenderSnippet(_, _)
RenderSnippet(template_str, kwargs) ==
    IF template_str = <<>> THEN <<>>
    ELSE (IF template_str[1] = PARAM
          THEN (IF "python_version" \in DOMAIN kwargs
                THEN <<kwargs["python_version"]>>
                ELSE <<>>)
          ELSE <<template_str[1]>>) \o RenderSnippet(Tail(template_str), kwargs)

\* for name, variants in file_recipes.items(): merged[name].update(variants)
MergeRecipes(merged, file_recipes) ==
    [name \in (DOMAIN merged) \cup (DOMAIN file_recipes) |->
        IF name \in DOMAIN file_recipes
        THEN Update(Get(merged, name, EmptyDict), file_recipes[name])
        ELSE merged[name]]

RECURSIVE MergeAll(_, _)
MergeAll(merged, files) ==
    IF files = <<>> THEN merged
    ELSE MergeAll(MergeRecipes(merged, files[1]), Tail(files))

\* _load_builtin_recipes: the globals after the call.
LoadBuiltin(loaded, current, files) ==
    IF loaded THEN current ELSE MergeAll(current, files)

\* RecipeRegistry.__init__: self.recipes
NewRegistry(builtin, recipes) ==
    LET copy == [k \in DOMAIN builtin |-> builtin[k]]
    IN  MergeRecipes(copy, recipes)

\* A slip of __init__: self.recipes = dict(builtin) shares the inner dicts
\* with the module global, and the update of a built-in name writes through.
BuiltinAfterInitShared(builtin, recipes) ==
    [name \in DOMAIN builtin |->
        IF name \in DOMAIN recipes THEN Update(builtin[name], recipes[name])
        ELSE builtin[name]]

\* RecipeRegistry.__init__: what the call leaves in the dict it got from
\* _load_builtin_recipes.  {k: dict(v) ...} copies every inner dict, so the
\* updates of self.recipes[name] do not reach it.
BuiltinAfterInit(builtin, recipes) == builtin

\* recipe_variants.get(variant) or recipe_variants.get("_default", "")
SelectSnippet(recipe_variants, variant) ==
    IF variant \in DOMAIN recipe_variants /\ recipe_variants[variant] # <<>>
    THEN recipe_variants[variant]
    ELSE Get(recipe_variants, "_default", <<>>)

\* RecipeRegistry.get
RegistryGet(recipes, name, variant, kwargs) ==
    IF name \notin DOMAIN recipes
    THEN [raised |-> "KeyError", text |-> <<>>]
    ELSE LET template_str == SelectSnippet(recipes[name], variant)
         IN  IF template_str = <<>>
             THEN [raised |-> NONE, text |-> <<>>]
             ELSE [raised |-> NONE, text |-> RenderSnippet(template_str, kwargs)]

\* A plausible slip of has: it asks whether a key is there, not whether the
\* entry get would select is non-empty.
RegistryHasKeyPresence(recipes, name, variant) ==
    /\ name \in DOMAIN recipes
    /\ (variant \in DOMAIN recipes[name] \/ "_default" \in DOMAIN recipes[name])

\* RecipeRegistry.has
RegistryHas(recipes, name, variant) ==
    IF name \notin DOMAIN recipes
    THEN FALSE
    ELSE LET recipe_variants == recipes[name]
         IN  \/ (variant \in DOMAIN recipe_variants
                    /\ recipe_variants[variant] # <<>>)
             \/ ("_default" \in DOMAIN recipe_variants
                    /\ recipe_variants["_default"] # <<>>)

(***************************************************************************)
(* The registry under construction and lookup (specification               *)
(* SpecRegistry).                                                          *)
(***************************************************************************)
\* At most MaxRegistries registries are constructed in a run.
MaxRegistries == 2

RecipeNames == {"install", "setup"}
EntryKeys == {"debian", "_default"}
LookupVariants == {"debian", "alpine", "_default"}
UserTexts == {<<>>, <<"c", PARAM>>}

\* The package's recipe files, in sorted order.
BuiltinFiles ==
    { <<>>,
      << [install |-> [_default |-> <<"#", NL, "c">>]] >>,
      << [install |-> [x \in {} |-> <<>>]] >>,
      << [install |-> [_default |-> <<"c">>]], [install |-> [debian |-> <<"d">>]] >>,
      << [install |-> [debian |-> <<"c">>]], [install |-> [debian |-> <<>>]] >> }

\* What a caller passes as recipes: nothing, a recipe without entries, or a
\* recipe with one entry.
UserRecipes ==
    {EmptyDict}
    \cup {[n \in {name} |-> EmptyDict] : name \in RecipeNames}
    \cup {[n \in {name} |-> [k \in {key} |-> text]] :
            name \in RecipeNames, key \in EntryKeys, text \in UserTexts}

CallParams == [python_version |-> "3.12"]

NoCall ==
    [op |-> "none", reg |-> 0, name |-> "", variant |-> "",
     raised |-> NONE, text |-> <<>>, flag |-> FALSE]

InitRegistry ==
    /\ mode = "registry"
    /\ pkg \in BuiltinFiles
    /\ DEFAULT_RECIPES = EmptyDict
    /\ BUILTIN_LOADED = FALSE
    /\ pkg_reads = 0
    /\ registries = <<>>
    /\ ret = NoCall /\ given = <<>>
    /\ CheckIdle /\ DirIdle
    /\ snippet = <<>> /\ out = [raised |-> NONE, text |-> <<>>] /\ rpc = "idle"
    /\ variants_dir = EmptyDict /\ vid = <<>> /\ vresult = EmptyDict /\ vpc = "idle"
    /\ GenIdle

\* RecipeRegistry(recipes)
Construct(recipes) ==
    /\ mode = "registry"
    /\ Len(registries) < MaxRegistries
    /\ LET builtin == LoadBuiltin(BUILTIN_LOADED, DEFAULT_RECIPES, pkg)
       IN  /\ DEFAULT_RECIPES' = BuiltinAfterInit(builtin, recipes)
           /\ registries' = Append(registries, NewRegistry(builtin, recipes))
    /\ pkg_reads' = IF BUILTIN_LOADED THEN pkg_reads ELSE pkg_reads + 1
    /\ BUILTIN_LOADED' = TRUE
    /\ given' = Append(given, recipes)
    /\ UNCHANGED <<checkVars, dirVars, mode, pkg, ret, recipeVars, variantVars,
                   genVars>>

\* registry.get(name, variant, **params)
CallGet(r, name, variant) ==
    /\ mode = "registry"
    /\ LET got == RegistryGet(registries[r], name, variant, CallParams)
       IN  ret' = [op |-> "get", reg |-> r, name |-> name, variant |-> variant,
                   raised |-> got.raised, text |-> got.text, flag |-> FALSE]
    /\ UNCHANGED <<checkVars, dirVars, mode, pkg, DEFAULT_RECIPES,
                   BUILTIN_LOADED, pkg_reads, registries, given, recipeVars,
                   variantVars, genVars>>

\* registry.has(name, variant)
CallHas(r, name, variant) ==
    /\ mode = "registry"
    /\ ret' = [op |-> "has", reg |-> r, name |-> name, variant |-> variant,
               raised |-> NONE, text |-> <<>>,
               flag |-> RegistryHas(registries[r], name, variant)]
    /\ UNCHANGED <<checkVars, dirVars, mode, pkg, DEFAULT_RECIPES,
                   BUILTIN_LOADED, pkg_reads, registries, given, recipeVars,
                   variantVars, genVars>>

NextRegistry ==
    \/ \E recipes \in UserRecipes : Construct(recipes)
    \/ \E r \in 1..Len(registries), name \in RecipeNames, variant \in LookupVariants :
          CallGet(r, name, variant)
    \/ \E r \in 1..Len(registries), name \in RecipeNames, variant \in LookupVariants :
          CallHas(r, name, variant)

SpecRegistry == InitRegistry /\ [][NextRegistry]_vars

(***************************************************************************)
(* The recipe primitives of a template (specification SpecRecipe).         *)
(***************************************************************************)
\* The snippets of the model: every text of at most MaxPieces pieces.
Pieces == {RUN_, COPY_, <<"#">>, <<"c">>, <<" ">>, <<NL>>, <<PARAM>>}

RECURSIVE Texts(_)
Texts(n) ==
    IF n = 0 THEN {<<>>}
    ELSE LET shorter == Texts(n - 1)
         IN  shorter \cup {t \o p : t \in shorter, p \in Pieces}

Snippets == Texts(MaxPieces)

\* The generator whose template calls the primitives: its registry holds the
\* snippet as the recipe "install", for every variant.
RecipeGenerator ==
    [registry |-> [install |-> [_default |-> snippet]],
     base_variant |-> "debian",
     defaults |-> [python_version |-> "3.12"]]

\* registry.get(name, self.base_variant, **{**self.defaults, **kwargs})
Resolve(gen, name, kwargs) ==
    RegistryGet(gen.registry, name, gen.base_variant, Update(gen.defaults, kwargs))

\* DockerfileGenerator._recipe_func
RecipeFunc(gen, name, kwargs) ==
    LET got == Resolve(gen, name, kwargs)
    IN  IF got.raised # NONE THEN got
        ELSE [raised |-> NONE, text |-> RunPrefix(got.text)]

\* DockerfileGenerator._recipe_raw_func
RecipeRawFunc(gen, name, kwargs) ==
    LET got == Resolve(gen, name, kwargs)
    IN  IF got.raised # NONE THEN got
        ELSE [raised |-> NONE, text |-> RawStrip(got.text)]

PrimitiveNames == {"install", "missing"}

InitRecipe ==
    /\ mode = "recipe"
    /\ snippet \in Snippets
    /\ out = [raised |-> NONE, text |-> <<>>]
    /\ rpc = "start"
    /\ pkg = <<>> /\ DEFAULT_RECIPES = EmptyDict /\ BUILTIN_LOADED = FALSE
    /\ pkg_reads = 0 /\ registries = <<>> /\ ret = NoCall /\ given = <<>>
    /\ CheckIdle /\ DirIdle
    /\ variants_dir = EmptyDict /\ vid = <<>> /\ vresult = EmptyDict /\ vpc = "idle"
    /\ GenIdle

\* {{ recipe(name) }}
RecipeCall(name) ==
    /\ mode = "recipe" /\ rpc = "start"
    /\ out' = RecipeFunc(RecipeGenerator, name, EmptyDict)
    /\ rpc' = IF out'.raised = NONE THEN "recipe" ELSE "raised"
    /\ UNCHANGED <<checkVars, dirVars, mode, snippet, registryVars, variantVars, genVars>>

\* {{ recipe_raw(name) }}
RecipeRawCall(name) ==
    /\ mode = "recipe" /\ rpc = "start"
    /\ out' = RecipeRawFunc(RecipeGenerator, name, EmptyDict)
    /\ rpc' = IF out'.raised = NONE THEN "raw" ELSE "raised"
    /\ UNCHANGED <<checkVars, dirVars, mode, snippet, registryVars, variantVars, genVars>>

NextRecipe ==
    \/ \E name \in PrimitiveNames : RecipeCall(name)
    \/ \E name \in PrimitiveNames : RecipeRawCall(name)

SpecRecipe == InitRecipe /\ [][NextRecipe]_vars

(***************************************************************************)
(* The variant resolver (specification SpecVariant).                       *)
(*                                                                         *)
(* A variant id is the sequence of its parts and separators,               *)
(* <<"debian", "-", "trixie">> for "debian-trixie"; a file of variants/ is *)
(* named by the id it is for.  A parsed file is a dict whose "subvariants" *)
(* entry, if any, maps a sub-variant name to a dict.                       *)
(***************************************************************************)
\* variant.split("-", 1): <<base>> or <<base, rest>>
SplitFirst(variant) ==
    IF \E i \in 1..Len(variant) : variant[i] = "-"
    THEN LET i == CHOOSE j \in 1..Len(variant) :
                      variant[j] = "-" /\ \A h \in 1..(j - 1) : variant[h] # "-"
         IN  <<SubSeq(variant, 1, i - 1), SubSeq(variant, i + 1, Len(variant))>>
    ELSE <<variant>>

\* The exact-match file is merged last; a slip would merge it first.
LoadVariantConfigExactFirst(dir, variant) ==
    LET parts == SplitFirst(variant)
        base_file == parts[1]
        exact ==
            IF variant \in DOMAIN dir /\ variant # base_file
            THEN Pop(dir[variant], "subvariants")
            ELSE EmptyDict
    IN  IF base_file \in DOMAIN dir
        THEN LET subvariants == Get(dir[base_file], "subvariants", EmptyDict)
                 withBase == Update(exact, Pop(dir[base_file], "subvariants"))
             IN  IF Len(parts) > 1 /\ parts[2] \in DOMAIN subvariants
                 THEN Update(withBase, subvariants[parts[2]])
                 ELSE withBase
        ELSE exact

\* load_variant_config(template_dir, variant)
LoadVariantConfig(dir, variant) ==
    LET parts == SplitFirst(variant)
        base_variant == parts[1]
        base_file == base_variant
        exact_file == variant
        afterBase ==
            IF base_file \in DOMAIN dir
            THEN LET base_config == dir[base_file]
                     subvariants == Get(base_config, "subvariants", EmptyDict)
                     result == Pop(base_config, "subvariants")
                 IN  IF Len(parts) > 1 /\ parts[2] \in DOMAIN subvariants
                     THEN Update(result, subvariants[parts[2]])
                     ELSE result
            ELSE EmptyDict
    IN  IF exact_file \in DOMAIN dir /\ exact_file # base_file
        THEN Update(afterBase, Pop(dir[exact_file], "subvariants"))
        ELSE afterBase

ConfigKeys == {"python_version", "debian_base"}
ConfigValues == {"a", "b"}

\* Every dict over a subset of keys.
Dicts(keys, values) ==
    UNION {[ks -> values] : ks \in SUBSET keys}

FlatConfigs == Dicts(ConfigKeys, ConfigValues)

\* The sub-variant maps a base file may carry.
SubvariantMaps ==
    {EmptyDict} \cup {[s \in {<<"trixie">>} |-> c] : c \in FlatConfigs}

BaseFiles ==
    FlatConfigs
    \cup {Update(c, [subvariants |-> m]) : c \in FlatConfigs, m \in SubvariantMaps}

ExactFiles ==
    FlatConfigs
    \cup {Update(c, [subvariants |-> EmptyDict]) : c \in FlatConfigs}

VariantIds ==
    {<<"debian">>, <<"debian", "-", "trixie">>, <<"debian", "-", "sid">>}

VariantDirs ==
    {EmptyDict}
    \cup {[f \in {<<"debian">>} |-> b] : b \in BaseFiles}
    \cup {[f \in {<<"debian", "-", "trixie">>} |-> e] : e \in ExactFiles}
    \cup {[f \in {<<"debian">>, <<"debian", "-", "trixie">>} |->
              IF f = <<"debian">> THEN b ELSE e] : b \in BaseFiles, e \in ExactFiles}

InitVariant ==
    /\ mode = "variant"
    /\ variants_dir \in VariantDirs
    /\ vid \in VariantIds
    /\ vresult = EmptyDict
    /\ vpc = "start"
    /\ snippet = <<>> /\ out = [raised |-> NONE, text |-> <<>>] /\ rpc = "idle"
    /\ pkg = <<>> /\ DEFAULT_RECIPES = EmptyDict /\ BUILTIN_LOADED = FALSE
    /\ pkg_reads = 0 /\ registries = <<>> /\ ret = NoCall /\ given = <<>>
    /\ CheckIdle /\ DirIdle
    /\ GenIdle

LoadVariant ==
    /\ mode = "variant" /\ vpc = "start"
    /\ vresult' = LoadVariantConfig(variants_dir, vid)
    /\ vpc' = "done"
    /\ UNCHANGED <<checkVars, dirVars, mode, variants_dir, vid, recipeVars, registryVars, genVars>>

NextVariant == LoadVariant

SpecVariant == InitVariant /\ [][NextVariant]_vars

(***************************************************************************)
(* The template execution environment.                                     *)
(***************************************************************************)
GLOBAL_DEFAULTS ==
    [python_version |-> "3.12", debian_base |-> "bookworm",
     alpine_version |-> "3.20", pg_version |-> "16.4",
     nginx_version |-> "1.27.4", node_version |-> "20"]

\* DEFAULT_BASE_IMAGES.get(base_variant, DEFAULT_BASE_IMAGES["debian"]): the
\* pattern as its literals and the names of its fields.
BaseImagePattern(base_variant) ==
    IF base_variant = <<"alpine">>
    THEN <<"python:", "python_version", "-alpine", "alpine_version">>
    ELSE <<"python:", "python_version", "-slim-", "debian_base">>

\* pattern.format(**defaults)
Format(pattern, defaults) ==
    [i \in 1..Len(pattern) |->
        IF i \in {2, 4} THEN defaults[pattern[i]] ELSE pattern[i]]

\* variant.split("-")[0] if "-" in variant else variant
BaseVariant(variant) ==
    IF \E i \in 1..Len(variant) : variant[i] = "-" THEN SplitFirst(variant)[1]
    ELSE variant

\* The globals a jinja2 Environment is born with.
JinjaGlobals ==
    [range |-> "<range>", dict |-> "<dict>", lipsum |-> "<lipsum>",
     cycler |-> "<cycler>", joiner |-> "<joiner>", namespace |-> "<namespace>"]

\* The names __init__ registers before it exposes the defaults.
PrimitiveGlobals ==
    [recipe |-> "<recipe>", recipe_raw |-> "<recipe_raw>",
     has_recipe |-> "<has_recipe>", variant |-> "<variant>",
     base_variant |-> "<base_variant>", base_image |-> "<base_image>",
     defaults |-> "<defaults>"]

\* The names __init__ registers after it exposed the defaults.
LayerGlobals ==
    [layer_start |-> "<layer_start>", layer_join |-> "<layer_join>"]

\* for k, v in self.defaults.items(): if k not in globals: globals[k] = v
ExposeDefaults(globals, defaults) ==
    [k \in (DOMAIN globals) \cup (DOMAIN defaults) |->
        IF k \in DOMAIN globals THEN globals[k] ELSE defaults[k]]

\* DockerfileGenerator.__init__ (the registry apart)
NewGenerator(variant, defaults) ==
    LET self_defaults ==
            IF defaults # EmptyDict THEN Update(GLOBAL_DEFAULTS, defaults)
            ELSE GLOBAL_DEFAULTS
        base_variant == BaseVariant(variant)
        registered == Update(JinjaGlobals, PrimitiveGlobals)
    IN  [variant |-> variant,
         base_variant |-> base_variant,
         defaults |-> self_defaults,
         base_image |-> Format(BaseImagePattern(base_variant), self_defaults),
         globals |-> Update(ExposeDefaults(registered, self_defaults),
                            LayerGlobals)]

\* The names the templates of the model read.
TemplateNames ==
    (DOMAIN PrimitiveGlobals) \cup (DOMAIN LayerGlobals)
    \cup {"python_version", "target_name", "namespace"}

\* DockerfileGenerator.render: what each name denotes in the template body.
\* jinja2 resolves a name in the render context first, in the globals next.
Render(gen, context) ==
    LET ctx == IF "variant" \in DOMAIN context THEN context
               ELSE Update(context, [variant |-> "<variant>"])
    IN  [n \in TemplateNames |->
            IF n \in DOMAIN ctx THEN ctx[n]
            ELSE IF n \in DOMAIN gen.globals THEN gen.globals[n]
            ELSE "<undefined>"]

\* load_defaults_file / load_copier_answers: the first file found, {} if none
FirstFound(files) == IF files = <<>> THEN EmptyDict ELSE files[1]

\* load_copier_answers: keys starting with "_" and null values are left out
LoadCopierAnswers(files) ==
    LET data == FirstFound(files)
    IN  [k \in {x \in DOMAIN data : x # "_commit" /\ data[x] # NULL} |-> data[k]]

\* {**file_defaults, **variant_config, **(defaults or {})}
MergeFileVariantExplicit(file_defaults, variant_config, defaults) ==
    Update(Update(file_defaults, variant_config), defaults)

\* generate_dockerfile: the content it renders (the write is the caller's
\* action below).
GenerateDockerfile(variants, defaults_yml, variant, context, defaults) ==
    LET file_defaults == FirstFound(defaults_yml)
        variant_config == LoadVariantConfig(variants, variant)
        dockerfile_defaults ==
            MergeFileVariantExplicit(file_defaults, variant_config, defaults)
        full_context == Update(variant_config, context)
        generator == NewGenerator(variant, dockerfile_defaults)
    IN  [vars |-> Render(generator, full_context),
         defaults |-> generator.defaults,
         base_image |-> generator.base_image]

(***************************************************************************)
(* generate_all_dockerfiles (specifications Spec and SpecBatch).           *)
(***************************************************************************)
ConventionTemplate(tname) == <<"ops/build/docker-templates", tname, "Dockerfile.j2">>
ConventionOutput(tname) == <<"ops/build/docker", tname>>

\* A slip of the template resolution: the convention path is not looked at.
ResolveTemplateExplicitOnly(tconfig, tname, templates) ==
    tconfig.dockerfile_template

\* tconfig.get("dockerfile_template"), else the convention path if it exists
ResolveTemplate(tconfig, tname, templates) ==
    IF tconfig.dockerfile_template # <<>> THEN tconfig.dockerfile_template
    ELSE IF ConventionTemplate(tname) \in templates THEN ConventionTemplate(tname)
    ELSE <<>>

\* {**copier_defaults, **project_defaults, **(defaults or {})}
MergeProject(copier_defaults, project_defaults, defaults) ==
    Update(Update(copier_defaults, project_defaults), defaults)

\* {**merged_defaults, **tconfig.get("dockerfile_defaults", {})}
TargetDefaults(merged, tconfig) == Update(merged, tconfig.dockerfile_defaults)

\* A slip of the output resolution: the target's "dockerfile" is not read.
OutputPathConventionOnly(tconfig, tname) == ConventionOutput(tname)

\* Path(tconfig.get("dockerfile", f"ops/build/docker/Dockerfile.{tname}"))
OutputPath(tconfig, tname) ==
    IF tconfig.dockerfile # <<>> THEN tconfig.dockerfile
    ELSE ConventionOutput(tname)

\* The entries of the output tree.
Dir == [kind |-> "dir"]
File(content) == [kind |-> "file", content |-> content]

\* The directories above a path.
Ancestors(path) == {SubSeq(path, 1, i) : i \in 1..(Len(path) - 1)}

\* output_path.parent.mkdir(parents=True, exist_ok=True);
\* output_path.write_text(content)
WriteText(tree, path, content) ==
    Update(Update(tree, [d \in Ancestors(path) |-> Dir]),
           [f \in {path} |-> File(content)])

\* The lines of generate_all_dockerfiles before its loop.
Start ==
    /\ mode = "gen" /\ pc = "call"
    /\ selected' = IF args.targets # <<>> THEN args.targets
                   ELSE settings.target_order
    /\ merged_defaults' = MergeProject(LoadCopierAnswers(fs.copier),
                                       settings.dockerfile_defaults,
                                       args.defaults)
    /\ idx' = 1
    /\ pc' = "loop"
    /\ UNCHANGED <<checkVars, dirVars, mode, settings, args, fs, results, error, fs_out,
                   recipeVars, registryVars, variantVars>>

InLoop == mode = "gen" /\ pc = "loop" /\ idx <= Len(selected)

\* if tname not in all_targets: continue
SkipUnknown ==
    /\ InLoop
    /\ selected[idx] \notin DOMAIN settings.targets
    /\ idx' = idx + 1
    /\ UNCHANGED <<checkVars, dirVars, mode, settings, args, fs, pc, selected, merged_defaults,
                   results, error, fs_out, recipeVars, registryVars, variantVars>>

\* if not template_path: continue
SkipNoTemplate ==
    /\ InLoop
    /\ selected[idx] \in DOMAIN settings.targets
    /\ ResolveTemplate(settings.targets[selected[idx]], selected[idx],
                       fs.templates) = <<>>
    /\ idx' = idx + 1
    /\ UNCHANGED <<checkVars, dirVars, mode, settings, args, fs, pc, selected, merged_defaults,
                   results, error, fs_out, recipeVars, registryVars, variantVars>>

\* if not template.exists(): raise FileNotFoundError(...)
RaiseNotFound ==
    /\ InLoop
    /\ selected[idx] \in DOMAIN settings.targets
    /\ LET template_path == ResolveTemplate(settings.targets[selected[idx]],
                                            selected[idx], fs.templates)
       IN  template_path # <<>> /\ template_path \notin fs.templates
    /\ error' = [type |-> "FileNotFoundError", target |-> selected[idx]]
    /\ pc' = "raised"
    /\ UNCHANGED <<checkVars, dirVars, mode, settings, args, fs, selected, idx, merged_defaults,
                   results, fs_out, recipeVars, registryVars, variantVars>>

\* The rest of the loop body: generate_dockerfile and results[tname] = content
Generate ==
    /\ InLoop
    /\ selected[idx] \in DOMAIN settings.targets
    /\ LET tname == selected[idx]
           tconfig == settings.targets[tname]
           template_path == ResolveTemplate(tconfig, tname, fs.templates)
           output_path == OutputPath(tconfig, tname)
           context == Update([target_name |-> tname,
                              build_args |-> "<build_args>"],
                             tconfig.template_context)
           content == GenerateDockerfile(variants_dir, fs.defaults_yml, vid,
                                         context,
                                         TargetDefaults(merged_defaults, tconfig))
       IN  /\ template_path # <<>> /\ template_path \in fs.templates
           /\ results' = Update(results, [t \in {tname} |-> content])
           /\ fs_out' = IF args.dry_run THEN fs_out
                        ELSE WriteText(fs_out, output_path, content)
    \* DockerfileGenerator builds a RecipeRegistry, which loads the built-ins
    /\ DEFAULT_RECIPES' = LoadBuiltin(BUILTIN_LOADED, DEFAULT_RECIPES, pkg)
    /\ pkg_reads' = IF BUILTIN_LOADED THEN pkg_reads ELSE pkg_reads + 1
    /\ BUILTIN_LOADED' = TRUE
    /\ idx' = idx + 1
    /\ UNCHANGED <<checkVars, dirVars, mode, settings, args, fs, pc, selected, merged_defaults,
                   error, pkg, registries, ret, given, recipeVars, variantVars>>

\* return results
Return ==
    /\ mode = "gen" /\ pc = "loop" /\ idx > Len(selected)
    /\ pc' = "returned"
    /\ UNCHANGED <<checkVars, dirVars, mode, settings, args, fs, selected, idx, merged_defaults,
                   results, error, fs_out, recipeVars, registryVars, variantVars>>

Next ==
    \/ Start
    \/ SkipUnknown
    \/ SkipNoTemplate
    \/ RaiseNotFound
    \/ Generate
    \/ Return

(***************************************************************************)
(* The calls of the model.  A call's configuration layers are given by the *)
(* slots <<layer, key>> it sets: to the layer's own value, or to null.     *)
(***************************************************************************)
\* At most MaxSet slots are set over all the layers of a call of Spec.
MaxSet == 2

PlainKeys == {"python_version", "base_image", "layer_start"}

LayerKeys(layer) ==
    CASE layer = "copier" -> PlainKeys \cup {"_commit"}
      [] layer \in {"defaults_yml", "target_worker"} -> {"python_version"}
      [] OTHER -> PlainKeys

Layers ==
    {"copier", "defaults_yml", "variant", "project", "target_web",
     "target_worker", "explicit"}

Slots == {<<l, k>> : l \in Layers, k \in PlainKeys \cup {"_commit"}}
            \cap UNION {{<<l, k>> : k \in LayerKeys(l)} : l \in Layers}

RECURSIVE SubsetsUpTo(_, _)
SubsetsUpTo(S, n) ==
    IF n = 0 \/ S = {} THEN {{}}
    ELSE LET x == CHOOSE y \in S : TRUE
         IN  SubsetsUpTo(S \ {x}, n)
             \cup {T \cup {x} : T \in SubsetsUpTo(S \ {x}, n - 1)}

Assignments(n) ==
    UNION {[T -> {"value", "null"}] : T \in SubsetsUpTo(Slots, n)}

\* The dict a layer holds under an assignment.
Layer(a, layer) ==
    [k \in {x \in LayerKeys(layer) : <<layer, x>> \in DOMAIN a} |->
        IF a[<<layer, k>>] = "null" THEN NULL ELSE layer]

\* How a target comes by its template.
TemplateKinds == {"none", "convention", "explicit", "explicit_missing"}

ExplicitTemplate(tname) == <<"templates", tname, "Dockerfile.j2">>
ExplicitOutput(tname) == <<"docker", tname>>

Scenarios ==
    [web : TemplateKinds, worker : TemplateKinds,
     web_out : {<<>>, ExplicitOutput("web")},
     targets : {<<>>, <<"web">>, <<"worker">>, <<"worker", "web">>,
                <<"ghost", "worker", "web">>, <<"web", "web">>},
     dry_run : BOOLEAN,
     existing : BOOLEAN]

\* The calls of Spec: both orders of the targets, a worker with and without
\* a template.
MergeScenarios ==
    {s \in Scenarios :
        /\ s.web = "explicit"
        /\ s.worker \in {"none", "convention", "explicit_missing"}
        /\ s.web_out = <<>>
        /\ s.targets \in {<<>>, <<"ghost", "worker", "web">>}
        /\ s.dry_run
        /\ ~s.existing}

TargetConfig(tname, kind, dockerfile, defaults) ==
    [dockerfile_template |->
        IF kind \in {"explicit", "explicit_missing"} THEN ExplicitTemplate(tname)
        ELSE <<>>,
     dockerfile |-> dockerfile,
     dockerfile_defaults |-> defaults,
     template_context |-> EmptyDict]

TemplatesOnDisk(tname, kind) ==
    CASE kind = "convention" -> {ConventionTemplate(tname)}
      [] kind = "explicit" -> {ExplicitTemplate(tname)}
      [] OTHER -> {}

\* What an older run of another configuration left in a Dockerfile.
OldContent == [vars |-> EmptyDict, defaults |-> EmptyDict, base_image |-> <<>>]

\* The output tree before the call: empty, or holding an older Dockerfile
\* where the target "web" is written to.
ExistingTree(s) ==
    IF s.existing
    THEN LET path == IF s.web_out # <<>> THEN s.web_out ELSE ConventionOutput("web")
         IN  [q \in Ancestors(path) \cup {path} |->
                 IF q = path THEN File(OldContent) ELSE Dir]
    ELSE EmptyDict

\* The state before generate_all_dockerfiles is called with scenario s and
\* the layers of assignment a.  Every template directory holds the same
\* variants/ and defaults.yml.
InitGen(s, a) ==
    /\ mode = "gen"
    /\ settings =
          [targets |->
              [t \in {"web", "worker"} |->
                  IF t = "web"
                  THEN TargetConfig(t, s.web, s.web_out, Layer(a, "target_web"))
                  ELSE TargetConfig(t, s.worker, <<>>, Layer(a, "target_worker"))],
           target_order |-> <<"web", "worker">>,
           dockerfile_defaults |-> Layer(a, "project")]
    /\ args = [targets |-> s.targets, defaults |-> Layer(a, "explicit"),
               dry_run |-> s.dry_run]
    /\ fs = [templates |-> TemplatesOnDisk("web", s.web)
                              \cup TemplatesOnDisk("worker", s.worker),
             copier |-> IF Layer(a, "copier") = EmptyDict THEN <<>>
                        ELSE <<Layer(a, "copier")>>,
             defaults_yml |-> IF Layer(a, "defaults_yml") = EmptyDict THEN <<>>
                              ELSE <<Layer(a, "defaults_yml")>>]
    /\ variants_dir = (IF Layer(a, "variant") = EmptyDict THEN EmptyDict
                       ELSE [f \in {<<"debian">>} |-> Layer(a, "variant")])
    /\ vid = <<"debian", "-", "trixie">>
    /\ vresult = EmptyDict /\ vpc = "idle"
    /\ pc = "call" /\ selected = <<>> /\ idx = 0
    /\ merged_defaults = EmptyDict /\ results = EmptyDict
    /\ error = NoError /\ fs_out = ExistingTree(s)
    /\ snippet = <<>> /\ out = [raised |-> NONE, text |-> <<>>] /\ rpc = "idle"
    /\ pkg = <<[install |-> [_default |-> <<"c">>]]>>
    /\ DEFAULT_RECIPES = EmptyDict /\ BUILTIN_LOADED = FALSE
    /\ pkg_reads = 0 /\ registries = <<>> /\ ret = NoCall /\ given = <<>>
    /\ CheckIdle /\ DirIdle

Init == \E s \in MergeScenarios, a \in Assignments(MaxSet) : InitGen(s, a)

InitBatch == \E s \in Scenarios, a \in Assignments(1) : InitGen(s, a)

Spec == Init /\ [][Next]_vars

SpecBatch == InitBatch /\ [][Next]_vars

(***************************************************************************)
(* The validator of the merged defaults (specification SpecCheck).         *)
(***************************************************************************)
\* get_required_defaults_for_variant
GetRequiredDefaultsForVariant(variant) ==
    LET base_variant == BaseVariant(variant)
        common == <<"python_version", "node_version">>
    IN  IF base_variant = <<"debian">> THEN common \o <<"debian_base">>
        ELSE IF base_variant = <<"alpine">> THEN common \o <<"alpine_version">>
        ELSE common

\* A slip of the validator: a key mapped to null counts as present.
CheckVariantDefaultsAbsentOnly(defaults, variant) ==
    LET required == GetRequiredDefaultsForVariant(variant)
        IsMissing(k) == k \notin DOMAIN defaults
        missing == SelectSeq(required, IsMissing)
    IN  [is_complete |-> Len(missing) = 0, missing |-> missing]

\* check_variant_defaults
CheckVariantDefaults(defaults, variant) ==
    LET required == GetRequiredDefaultsForVariant(variant)
        IsMissing(k) == k \notin DOMAIN defaults \/ Get(defaults, k, NULL) = NULL
        missing == SelectSeq(required, IsMissing)
    IN  [is_complete |-> Len(missing) = 0, missing |-> missing]

\* The defaults of the model: every dict over these keys, each mapped to a
\* value or to null.
CheckKeys == {"python_version", "node_version", "debian_base", "alpine_version"}
CheckValues == {"v", NULL}

\* The variant ids of the model: the two known bases, with and without
\* sub-variants, other bases, and ids where "debian" is not the first part.
CheckVariants ==
    {<<"debian">>, <<"debian", "-", "trixie">>, <<"debian", "-">>,
     <<"alpine">>, <<"alpine", "-", "edge", "-", "x">>,
     <<"ubuntu">>, <<"ubuntu", "-", "debian">>, <<"-", "debian">>,
     <<"Debian">>, <<>>}

InitCheck ==
    /\ mode = "check"
    /\ chk_defaults \in Dicts(CheckKeys, CheckValues)
    /\ chk_variant \in CheckVariants
    /\ chk_ret = [is_complete |-> FALSE, missing |-> <<>>]
    /\ chk_pc = "start"
    /\ snippet = <<>> /\ out = [raised |-> NONE, text |-> <<>>] /\ rpc = "idle"
    /\ pkg = <<>> /\ DEFAULT_RECIPES = EmptyDict /\ BUILTIN_LOADED = FALSE
    /\ pkg_reads = 0 /\ registries = <<>> /\ ret = NoCall /\ given = <<>>
    /\ variants_dir = EmptyDict /\ vid = <<>> /\ vresult = EmptyDict /\ vpc = "idle"
    /\ GenIdle /\ DirIdle

\* check_variant_defaults(defaults, variant)
CheckCall ==
    /\ mode = "check" /\ chk_pc = "start"
    /\ chk_ret' = CheckVariantDefaults(chk_defaults, chk_variant)
    /\ chk_pc' = "done"
    /\ UNCHANGED <<mode, chk_defaults, chk_variant, dirVars, recipeVars,
                   registryVars, variantVars, genVars>>

NextCheck == CheckCall

SpecCheck == InitCheck /\ [][NextCheck]_vars

(***************************************************************************)
(* The recipes of a directory (specification SpecDir).                     *)
(*                                                                         *)
(* A file name is <<stem, extension>>; a recipe file's parsed "recipes"    *)
(* entry is a dict name -> (variant key -> snippet).                       *)
(***************************************************************************)
\* The file names of the model, in the order sorted() puts them.
FileNames ==
    << <<"a", ".yaml">>, <<"a", ".yml">>, <<"b", ".yaml">>, <<"b", ".yml">>,
       <<"c", ".txt">> >>

\* sorted(dir_path.glob("*" + ext)): the names of the directory with the
\* extension, in alphabetical order.
RECURSIVE SortedFrom(_, _, _)
SortedFrom(names, files, ext) ==
    IF names = <<>> THEN <<>>
    ELSE (IF names[1] \in DOMAIN files /\ names[1][2] = ext
          THEN <<names[1]>> ELSE <<>>) \o SortedFrom(Tail(names), files, ext)

SortedGlob(files, ext) == SortedFrom(FileNames, files, ext)

\* load_recipes_from_file for each path of a list
FileRecipes(files, paths) == [i \in 1..Len(paths) |-> files[paths[i]]]

\* load_recipes_from_dir
LoadRecipesFromDir(dir) ==
    IF ~dir.is_dir THEN EmptyDict
    ELSE LET yml == MergeAll(EmptyDict,
                             FileRecipes(dir.files, SortedGlob(dir.files, ".yml")))
         IN  MergeAll(yml, FileRecipes(dir.files, SortedGlob(dir.files, ".yaml")))

\* The entries a file of the model may define; each file's snippet for an
\* entry is the file's own name.
DirEntries == {<<"install", "debian">>, <<"install", "_default">>,
               <<"setup", "_default">>}

FileContent(fname, entries) ==
    [name \in {e[1] : e \in entries} |->
        [key \in {e[2] : e \in {x \in entries : x[1] = name}} |-> fname]]

\* What a directory of the model holds under a name: no file, or a file
\* that defines some of the entries (the .txt file, if there, all of them).
Absent == {<<"<absent>", "">>}

DirChoices ==
    [{FileNames[i] : i \in 1..Len(FileNames)} -> {Absent} \cup SUBSET DirEntries]

IsDirChoice(c) ==
    c[<<"c", ".txt">>] \in {Absent, DirEntries}

\* The directory of a choice.
Directory(c) ==
    [f \in {x \in DOMAIN c : c[x] # Absent} |-> FileContent(f, c[f])]

InitDir ==
    /\ mode = "dir"
    /\ \/ \E c \in DirChoices :
              /\ IsDirChoice(c)
              /\ dir_path = [is_dir |-> TRUE, files |-> Directory(c)]
       \/ dir_path = [is_dir |-> FALSE, files |-> EmptyDict]
    /\ dir_ret = EmptyDict
    /\ dir_pc = "start"
    /\ snippet = <<>> /\ out = [raised |-> NONE, text |-> <<>>] /\ rpc = "idle"
    /\ pkg = <<>> /\ DEFAULT_RECIPES = EmptyDict /\ BUILTIN_LOADED = FALSE
    /\ pkg_reads = 0 /\ registries = <<>> /\ ret = NoCall /\ given = <<>>
    /\ variants_dir = EmptyDict /\ vid = <<>> /\ vresult = EmptyDict /\ vpc = "idle"
    /\ GenIdle /\ CheckIdle

\* load_recipes_from_dir(dir_path)
LoadDir ==
    /\ mode = "dir" /\ dir_pc = "start"
    /\ dir_ret' = LoadRecipesFromDir(dir_path)
    /\ dir_pc' = "done"
    /\ UNCHANGED <<mode, dir_path, checkVars, recipeVars, registryVars,
                   variantVars, genVars>>

NextDir == LoadDir

SpecDir == InitDir /\ [][NextDir]_vars

(***************************************************************************)
(* The RUN-prefix rule (checked under SpecRecipe).                         *)
(***************************************************************************)
IsCommentLine(line) == startswith(strip(line), <<"#">>)
IsBlankLine(line) == strip(line) = <<>>

\* What registry.get resolved for the recipe of the run.
ResolvedSnippet == Resolve(RecipeGenerator, "install", EmptyDict).text

\* C5: the recipe primitive implements the RUN-prefix rule for every resolved
\* snippet: trimmed empty content gives empty text; content starting with
\* "RUN " or "COPY " is returned as it is; otherwise, when the content holds
\* commands, the output is leading comment lines followed by a line that
\* starts with "RUN " and carries a command, never a comment, and when the
\* content holds nothing but comments the output holds no RUN line.
C5_RunPrefixRule ==
    (mode = "recipe" /\ rpc = "recipe") =>
        LET content == rstrip(ResolvedSnippet)
            lines == split(content)
            outlines == split(out.text)
            hasCommands ==
                \E i \in 1..Len(lines) :
                    ~IsCommentLine(lines[i]) /\ ~IsBlankLine(lines[i])
        IN  /\ content = <<>> => out.text = <<>>
            /\ (startswith(content, RUN_) \/ startswith(content, COPY_))
                  => out.text = content
            /\ (content # <<>> /\ ~startswith(content, RUN_)
                    /\ ~startswith(content, COPY_) /\ hasCommands)
                  => \E n \in 0..(Len(outlines) - 1) :
                        /\ \A i \in 1..n : IsCommentLine(outlines[i])
                        /\ startswith(outlines[n + 1], RUN_)
                        /\ ~IsCommentLine(SubSeq(outlines[n + 1], 5,
                                                 Len(outlines[n + 1])))
            /\ (content # <<>> /\ ~hasCommands)
                  => \A i \in 1..Len(outlines) : ~startswith(outlines[i], RUN_)

(***************************************************************************)
(* The registry's lookup (checked under SpecRegistry).                     *)
(***************************************************************************)
\* The entry the fallback rule names: the variant's if the recipe has one,
\* else the "_default" one, else the empty text.
EntryByRule(recipe_variants, variant) ==
    IF variant \in DOMAIN recipe_variants THEN recipe_variants[variant]
    ELSE IF "_default" \in DOMAIN recipe_variants THEN recipe_variants["_default"]
    ELSE <<>>

\* C6: get fails with a lookup error iff the name is not registered; for a
\* registered name it returns the variant's entry if the recipe has one, else
\* the "_default" entry, else the empty text; and a variant without an entry
\* resolves exactly as "_default" does.
C6_GetContract ==
    (mode = "registry" /\ ret.op = "get") =>
        LET recipes == registries[ret.reg] IN
        /\ (ret.raised = "KeyError") <=> (ret.name \notin DOMAIN recipes)
        /\ ret.name \in DOMAIN recipes =>
              /\ ret.text = RenderSnippet(EntryByRule(recipes[ret.name], ret.variant),
                                          CallParams)
              /\ (ret.variant \notin DOMAIN recipes[ret.name]
                      /\ "_default" \in DOMAIN recipes[ret.name])
                    => ret.text = RegistryGet(recipes, ret.name, "_default",
                                              CallParams).text

\* C7: has never raises, is false for every unknown name, and for a
\* registered name is true exactly when get selects a non-empty snippet (the
\* variant's entry or "_default") instead of returning the empty text.
C7_HasMatchesGet ==
    (mode = "registry" /\ ret.op = "has") =>
        LET recipes == registries[ret.reg] IN
        /\ ret.raised = NONE
        /\ ret.name \notin DOMAIN recipes => ret.flag = FALSE
        /\ ret.name \in DOMAIN recipes =>
              (ret.flag <=> SelectSnippet(recipes[ret.name], ret.variant) # <<>>)

\* has answered true through the "_default" fallback, for a variant whose own
\* entry is missing or empty.
C7_Witness ==
    /\ mode = "registry" /\ ret.op = "has" /\ ret.flag
    /\ ret.variant # "_default"
    /\ Get(registries[ret.reg][ret.name], ret.variant, <<>>) = <<>>

(***************************************************************************)
(* The variant resolver (checked under SpecVariant).                       *)
(***************************************************************************)
\* The files and the override the resolver looks at for the id of the run.
BaseFileOf == SplitFirst(vid)[1]
HasBaseFile == BaseFileOf \in DOMAIN variants_dir
HasExactFile == vid \in DOMAIN variants_dir /\ vid # BaseFileOf
SubOverrides ==
    IF HasBaseFile THEN Get(variants_dir[BaseFileOf], "subvariants", EmptyDict)
    ELSE EmptyDict
HasSubOverride == Len(SplitFirst(vid)) > 1 /\ SplitFirst(vid)[2] \in DOMAIN SubOverrides

\* C4: for a variant id "base-sub" and every configuration key k, a value the
\* exact-match file sets wins; failing that, a value the sub-variant override
\* sets wins over the base file's; and without an override and an exact-match
\* file the result is the base file's top-level keys without "subvariants".
C4_VariantPrecedence ==
    (mode = "variant" /\ vpc = "done" /\ Len(SplitFirst(vid)) > 1) =>
        /\ \A k \in ConfigKeys :
              /\ (HasExactFile /\ k \in DOMAIN variants_dir[vid])
                    => (k \in DOMAIN vresult /\ vresult[k] = variants_dir[vid][k])
              /\ (HasSubOverride /\ k \in DOMAIN SubOverrides[SplitFirst(vid)[2]]
                      /\ ~(HasExactFile /\ k \in DOMAIN variants_dir[vid]))
                    => (k \in DOMAIN vresult
                          /\ vresult[k] = SubOverrides[SplitFirst(vid)[2]][k])
        /\ (~HasSubOverride /\ ~HasExactFile) =>
              vresult = (IF HasBaseFile
                         THEN Pop(variants_dir[BaseFileOf], "subvariants")
                         ELSE EmptyDict)
        /\ "subvariants" \notin DOMAIN vresult

\* A key set by the base file, by the sub-variant override and, to another
\* value, by an exact-match file that carries a "subvariants" entry of its
\* own has been resolved.
C4_Witness ==
    /\ mode = "variant" /\ vpc = "done"
    /\ HasBaseFile /\ HasSubOverride /\ HasExactFile
    /\ \E k \in ConfigKeys :
          /\ k \in DOMAIN variants_dir[BaseFileOf]
          /\ k \in DOMAIN SubOverrides[SplitFirst(vid)[2]]
          /\ k \in DOMAIN variants_dir[vid]
          /\ variants_dir[vid][k] # SubOverrides[SplitFirst(vid)[2]][k]
          /\ "subvariants" \in DOMAIN variants_dir[vid]

(***************************************************************************)
(* The defaults merge (checked under Spec).                                *)
(***************************************************************************)
\* The layers of a target in the order of precedence the specification
\* gives, lowest first: 1 the built-in baseline, 2 the project metadata
\* (.copier-answers.yml as it is on disk), 3 the variant configuration,
\* 4 the settings' dockerfile_defaults, 5 the target's dockerfile_defaults,
\* 6 the caller's explicit defaults.
LayersInOrder(t) ==
    <<GLOBAL_DEFAULTS,
      FirstFound(fs.copier),
      LoadVariantConfig(variants_dir, vid),
      settings.dockerfile_defaults,
      settings.targets[t].dockerfile_defaults,
      args.defaults>>

\* No layer above layer i sets k, and neither does a defaults.yml.
Topmost(t, i, k) ==
    /\ \A j \in (i + 1)..6 : k \notin DOMAIN LayersInOrder(t)[j]
    /\ k \notin DOMAIN FirstFound(fs.defaults_yml)

\* The merged defaults the target was rendered with.
MergedFor(t, k) == Get(results[t].defaults, k, "<absent>")

\* C1: for every generated target and every key set both by the caller's
\* explicit defaults and by the target's dockerfile_defaults, the merged
\* defaults hold the explicit value.
C1_ExplicitHighest ==
    mode = "gen" =>
        \A t \in DOMAIN results :
            \A k \in (DOMAIN args.defaults)
                        \cap (DOMAIN settings.targets[t].dockerfile_defaults) :
                MergedFor(t, k) = args.defaults[k]

\* C2: the variant configuration sits above the project metadata and below
\* the settings' dockerfile_defaults: a key set by both the variant
\* configuration and the project metadata (and by no higher layer) has the
\* variant configuration's value, a key set by both the variant configuration
\* and the settings (and by no higher layer) has the settings' value.
C2_VariantAboveMetadata ==
    mode = "gen" =>
        \A t \in DOMAIN results : \A k \in PlainKeys :
            LET layers == LayersInOrder(t) IN
            /\ (k \in DOMAIN layers[3] /\ k \in DOMAIN layers[2]
                    /\ Topmost(t, 3, k))
                  => MergedFor(t, k) = layers[3][k]
            /\ (k \in DOMAIN layers[3] /\ k \in DOMAIN layers[4]
                    /\ Topmost(t, 4, k))
                  => MergedFor(t, k) = layers[4][k]

\* C3: a later layer's null overwrites an earlier layer's value: for every
\* pair of layers (earlier, later) and every key both set, the later one to
\* null (no layer above it setting the key), the merged defaults hold null.
C3_NullOverwrites ==
    mode = "gen" =>
        \A t \in DOMAIN results : \A k \in PlainKeys :
            \A i \in 1..6, j \in 1..6 :
                LET layers == LayersInOrder(t) IN
                (i < j /\ k \in DOMAIN layers[i] /\ k \in DOMAIN layers[j]
                    /\ layers[j][k] = NULL /\ Topmost(t, j, k))
                  => MergedFor(t, k) = NULL

\* The names a template reserves, with what each denotes.
ReservedGlobals == Update(PrimitiveGlobals, LayerGlobals)

\* C10: a key of the merged defaults or of the variant configuration that is
\* a reserved name never overrides it: in the template body the name still
\* denotes the reserved primitive.
C10_ReservedNamesKept ==
    mode = "gen" =>
        \A t \in DOMAIN results :
            \A n \in DOMAIN ReservedGlobals :
                (n \in DOMAIN results[t].defaults
                    \/ n \in DOMAIN LoadVariantConfig(variants_dir, vid))
                  => results[t].vars[n] = ReservedGlobals[n]

(***************************************************************************)
(* The targets of a run (checked under SpecBatch).                         *)
(***************************************************************************)
\* The target has a template: an explicit dockerfile_template, else a file
\* at the convention path.
Resolvable(t) ==
    \/ settings.targets[t].dockerfile_template # <<>>
    \/ ConventionTemplate(t) \in fs.templates

\* C8: a batch call never fails for a target without a template, and the
\* mapping it returns has exactly the targets of the settings that have a
\* template as its keys.
C8_BatchSkipsTemplateless ==
    (mode = "gen" /\ args.targets = <<>>) =>
        /\ pc = "raised" => Resolvable(error.target)
        /\ pc = "returned" =>
              DOMAIN results = {t \in DOMAIN settings.targets : Resolvable(t)}

\* A batch call returned with one target generated and the other left out.
C8_Witness ==
    /\ mode = "gen" /\ args.targets = <<>> /\ pc = "returned"
    /\ DOMAIN results # {}
    /\ \E t \in DOMAIN settings.targets : ~Resolvable(t) /\ t \notin DOMAIN results

\* C9: a call for a single target that is in the settings and has no
\* template fails with a template-not-found error naming the target; it does
\* not return.
C9_SingleTargetRaises ==
    (mode = "gen" /\ Len(args.targets) = 1
        /\ args.targets[1] \in DOMAIN settings.targets
        /\ ~Resolvable(args.targets[1]))
      => /\ pc # "returned"
         /\ pc = "raised" => error = [type |-> "FileNotFoundError",
                                      target |-> args.targets[1]]

(***************************************************************************)
(* The output tree (checked under SpecBatch).                              *)
(***************************************************************************)
\* The loop is at a target of the settings whose template exists: the step
\* taken from here renders it.
GeneratesTarget ==
    /\ InLoop
    /\ selected[idx] \in DOMAIN settings.targets
    /\ ResolveTemplate(settings.targets[selected[idx]], selected[idx],
                       fs.templates) \in fs.templates

\* The target's explicit "dockerfile" setting, else the convention path.
ResolvedOutput(t) ==
    IF settings.targets[t].dockerfile # <<>> THEN settings.targets[t].dockerfile
    ELSE ConventionOutput(t)

\* C11: every step that generates a target returns its rendered text; with
\* dry_run it leaves the output tree as it was; without dry_run it leaves
\* exactly the returned text at the resolved output path (the target's
\* "dockerfile", else the convention path), the directories above it exist,
\* nothing else of the tree changes, and a file that already held the same
\* text is left identical.  No other step touches the tree.
C11_OutputEffect ==
    [][mode = "gen" =>
        IF GeneratesTarget
        THEN LET t == selected[idx]
                 path == ResolvedOutput(t)
             IN  /\ t \in DOMAIN results'
                 /\ args.dry_run => fs_out' = fs_out
                 /\ ~args.dry_run =>
                       /\ path \in DOMAIN fs_out'
                       /\ fs_out'[path] = File(results'[t])
                       /\ \A d \in Ancestors(path) :
                             d \in DOMAIN fs_out' /\ fs_out'[d] = Dir
                       /\ DOMAIN fs_out \subseteq DOMAIN fs_out'
                       /\ \A q \in (DOMAIN fs_out') \ ({path} \cup Ancestors(path)) :
                             q \in DOMAIN fs_out /\ fs_out'[q] = fs_out[q]
                       /\ (path \in DOMAIN fs_out /\ fs_out[path] = File(results'[t]))
                             => fs_out' = fs_out
        ELSE fs_out' = fs_out]_vars

\* A call without dry_run that generated "web" twice has returned: the
\* target's explicit "dockerfile" path holds the returned text.
C11_Witness ==
    /\ mode = "gen" /\ pc = "returned" /\ ~args.dry_run
    /\ args.targets = <<"web", "web">>
    /\ "web" \in DOMAIN results
    /\ settings.targets["web"].dockerfile = ExplicitOutput("web")
    /\ ExplicitOutput("web") \in DOMAIN fs_out
    /\ fs_out[ExplicitOutput("web")] = File(results["web"])

(***************************************************************************)
(* The validator (checked under SpecCheck).                                *)
(***************************************************************************)
\* The keys the claim requires of a variant: the common ones, and the key of
\* the base the id starts with, up to its first "-".
RequiredByRule(variant) ==
    LET base == IF variant = <<>> THEN <<>> ELSE SplitFirst(variant)[1]
    IN  {"python_version", "node_version"}
        \cup (IF base = <<"debian">> THEN {"debian_base"} ELSE {})
        \cup (IF base = <<"alpine">> THEN {"alpine_version"} ELSE {})

\* C12: check_variant_defaults returns (is_complete, missing) where missing
\* lists, each once, exactly the required keys of the variant that are
\* absent from defaults or mapped to null, and is_complete is true iff
\* missing is empty.
C12_MissingIsExact ==
    (mode = "check" /\ chk_pc = "done") =>
        LET missing == chk_ret.missing IN
        /\ {missing[i] : i \in 1..Len(missing)}
              = {k \in RequiredByRule(chk_variant) :
                    k \notin DOMAIN chk_defaults \/ chk_defaults[k] = NULL}
        /\ \A i, j \in 1..Len(missing) : missing[i] = missing[j] => i = j
        /\ chk_ret.is_complete <=> (missing = <<>>)

\* The validator reported an absent key and a null one, the base's own key
\* among them, for a variant with a sub-variant.
C12_Witness ==
    /\ mode = "check" /\ chk_pc = "done"
    /\ chk_variant = <<"debian", "-", "trixie">>
    /\ "python_version" \notin DOMAIN chk_defaults
    /\ "debian_base" \in DOMAIN chk_defaults /\ chk_defaults["debian_base"] = NULL
    /\ chk_ret = [is_complete |-> FALSE,
                  missing |-> <<"python_version", "debian_base">>]

(***************************************************************************)
(* Errors in a run over several targets (checked under SpecBatch).         *)
(***************************************************************************)
\* The target is in the settings and its template is on disk.
Generatable(t) ==
    /\ t \in DOMAIN settings.targets
    /\ ResolveTemplate(settings.targets[t], t, fs.templates) \in fs.templates

\* C13: in a run over several selected targets an error raised for one
\* target does not end the run: the call still returns, and the mapping it
\* returns holds every selected target whose template is on disk.
C13_ErrorAbortsOnlyTarget ==
    (mode = "gen" /\ Len(selected) > 1) =>
        /\ pc # "raised"
        /\ pc = "returned" =>
              \A i \in 1..Len(selected) :
                  Generatable(selected[i]) => selected[i] \in DOMAIN results

(***************************************************************************)
(* The recipes of a directory (checked under SpecDir).                     *)
(***************************************************************************)
\* The recipe files of the directory that define the entry, by their
\* position in the alphabetical order of all names.
Defining(name, key) ==
    {i \in 1..Len(FileNames) :
        /\ FileNames[i] \in DOMAIN dir_path.files
        /\ FileNames[i][2] \in {".yml", ".yaml"}
        /\ name \in DOMAIN dir_path.files[FileNames[i]]
        /\ key \in DOMAIN dir_path.files[FileNames[i]][name]}

\* C14: the merged recipes hold, for every recipe name and variant key that
\* some recipe file of the directory defines, the snippet of the
\* alphabetically last file that defines it, whatever the files'
\* extensions; and they hold no other entry.
C14_AlphabeticalOverride ==
    (mode = "dir" /\ dir_pc = "done" /\ dir_path.is_dir) =>
        /\ \A e \in DirEntries :
              LET defining == Defining(e[1], e[2]) IN
              IF defining = {}
              THEN e[1] \in DOMAIN dir_ret => e[2] \notin DOMAIN dir_ret[e[1]]
              ELSE LET last == CHOOSE i \in defining : \A j \in defining : j <= i
                   IN  /\ e[1] \in DOMAIN dir_ret
                       /\ e[2] \in DOMAIN dir_ret[e[1]]
                       /\ dir_ret[e[1]][e[2]]
                             = dir_path.files[FileNames[last]][e[1]][e[2]]

(***************************************************************************)
(* The RUN-prefix rule applied twice (checked under SpecRecipe).           *)
(***************************************************************************)
\* C15: the RUN-prefix rule is idempotent and never doubles the instruction
\* keyword: applied to what recipe() returned it gives the same text back,
\* and a snippet whose leading comment lines are followed by a line that
\* starts with "RUN " or "COPY " gets no "RUN " in front of that keyword.
C15_RunPrefixIdempotent ==
    (mode = "recipe" /\ rpc = "recipe") =>
        LET lines == split(rstrip(ResolvedSnippet))
            n == LeadingCount(lines)
            outlines == split(out.text)
        IN  /\ RunPrefix(out.text) = out.text
            /\ (n >= 1 /\ n < Len(lines)
                    /\ (startswith(lines[n + 1], RUN_)
                          \/ startswith(lines[n + 1], COPY_)))
                  => \A i \in 1..Len(outlines) :
                        /\ ~startswith(outlines[i], RUN_ \o RUN_)
                        /\ ~startswith(outlines[i], RUN_ \o COPY_)

(***************************************************************************)
(* The per-key shortcuts of a template (checked under Spec).               *)
(***************************************************************************)
\* The template context generate_all_dockerfiles supplies for a target.
CallerContext(t) ==
    Update([target_name |-> t, build_args |-> "<build_args>"],
           settings.targets[t].template_context)

\* C16: in the template of every generated target, every key of the merged
\* defaults that is not a reserved name and not set in the caller's template
\* context denotes, as a top-level variable, the value defaults[k] holds,
\* which is also the value substituted into base_image.
C16_ShortcutEqualsDefaults ==
    mode = "gen" =>
        \A t \in DOMAIN results :
            /\ \A k \in (DOMAIN results[t].defaults) \cap TemplateNames :
                  (k \notin DOMAIN ReservedGlobals
                      /\ k \notin DOMAIN CallerContext(t))
                    => results[t].vars[k] = results[t].defaults[k]
            /\ results[t].base_image[2] = results[t].defaults["python_version"]

(***************************************************************************)
(* The built-in recipes of the process (checked under SpecRegistry).       *)
(***************************************************************************)
\* What the first load of the package's recipe files leaves in the global.
FirstLoad == MergeAll(EmptyDict, pkg)

\* The entry of a recipes dict under a name and a variant key: <<snippet>>,
\* or <<>> if there is none.
EntryOf(recipes, name, key) ==
    IF name \in DOMAIN recipes /\ key \in DOMAIN recipes[name]
    THEN <<recipes[name][key]>>
    ELSE <<>>

\* C17: the built-in recipes are loaded once and never change afterwards:
\* after any constructions and get/has calls DEFAULT_RECIPES is what the
\* first load produced and the package's files were read at most once; every
\* registry holds, entry by entry, its own user recipes over the built-ins
\* and nothing of another registry's; and a registry constructed without
\* user recipes resolves every name and variant as the built-ins alone do.
C17_BuiltinLoadOnce ==
    mode = "registry" =>
        /\ pkg_reads <= 1
        /\ BUILTIN_LOADED <=> (registries # <<>>)
        /\ BUILTIN_LOADED => DEFAULT_RECIPES = FirstLoad
        /\ \A r \in 1..Len(registries) :
              /\ DOMAIN registries[r] = (DOMAIN FirstLoad) \cup (DOMAIN given[r])
              /\ \A name \in RecipeNames, key \in EntryKeys :
                    EntryOf(registries[r], name, key)
                      = (IF EntryOf(given[r], name, key) # <<>>
                         THEN EntryOf(given[r], name, key)
                         ELSE EntryOf(FirstLoad, name, key))
        /\ (ret.op \in {"get", "has"} /\ given[ret.reg] = EmptyDict) =>
              /\ ret.op = "get" =>
                    [raised |-> ret.raised, text |-> ret.text]
                      = RegistryGet(FirstLoad, ret.name, ret.variant, CallParams)
              /\ ret.op = "has" =>
                    ret.flag = RegistryHas(FirstLoad, ret.name, ret.variant)

\* A registry whose user recipes override an entry of a built-in recipe was
\* constructed first, one without user recipes after it, and a get on the
\* second returned the built-in snippet.
C17_Witness ==
    /\ mode = "registry" /\ Len(registries) = 2
    /\ given[2] = EmptyDict
    /\ \E key \in EntryKeys :
          /\ EntryOf(FirstLoad, "install", key) # <<>>
          /\ EntryOf(given[1], "install", key) # <<>>
          /\ EntryOf(given[1], "install", key) # EntryOf(FirstLoad, "install", key)
    /\ ret.op = "get" /\ ret.reg = 2 /\ ret.name = "install"
    /\ ret.raised = NONE /\ ret.text # <<>>

====
